---- MODULE Spec2Model ----
(***************************************************************************)
(* Model of lib/classes/many_to_many.py: the classes Article, Author and   *)
(* Magazine, the class-level registry Article.all and the derived queries. *)
(*                                                                         *)
(* Python objects are attribute dictionaries (functions from attribute     *)
(* names to values), so that hasattr is membership in the domain.  Objects *)
(* are identified by their index in the heap sequence of their class;      *)
(* references stored in attributes are these indices (object identity).    *)
(***************************************************************************)
EXTENDS Integers, Sequences, FiniteSets, TLC

VARIABLES authors, magazines, articles, Article_all, last, ops

vars == <<authors, magazines, articles, Article_all, last, ops>>

(***************************************************************************)
(* Bounds of the exploration.                                              *)
(***************************************************************************)
\* number of calls made by the client in one run
MaxOps == 5

(***************************************************************************)
(* Python values handed to the program.                                    *)
(***************************************************************************)
Str(s) == [cls |-> "str", val |-> s]

None == [cls |-> "NoneType"]

Ref(c, i) == [cls |-> c, id |-> i]

isinstance(v, c) == v.cls = c

len(v) == Len(v.val)

hasattr(obj, f) == f \in DOMAIN obj

setattr(obj, f, v) == (f :> v) @@ obj

\* a freshly allocated object, before __init__ has run
EmptyObj == [f \in {} |-> 0]

In(x, list) == \E i \in 1..Len(list) : list[i] = x

Count(x, list) == Cardinality({i \in 1..Len(list) : list[i] = x})

Elems(list) == {list[i] : i \in 1..Len(list)}

NoExc == "none"

Ok(obj) == [exc |-> NoExc, obj |-> obj]

Raise(e, obj) == [exc |-> e, obj |-> obj]

(***************************************************************************)
(* Article: property setters.                                              *)
(***************************************************************************)
\* faulty variant: the title setter without the set-once guard of line 43
Article_title_set_Rewritable(self, value) ==
    IF ~isinstance(value, "str") THEN self
    ELSE IF len(value) < 5 \/ len(value) > 50 THEN self
    ELSE setattr(self, "_title", value.val)

Article_title_set(self, value) ==
    IF ~isinstance(value, "str") THEN self
    ELSE IF len(value) < 5 \/ len(value) > 50 THEN self
    ELSE IF hasattr(self, "_title") THEN self
    ELSE setattr(self, "_title", value.val)

Article_author_set(self, value) ==
    IF ~isinstance(value, "Author") THEN Raise("ValueError", self)
    ELSE Ok(setattr(self, "_author", value.id))

Article_magazine_set(self, value) ==
    IF ~isinstance(value, "Magazine") THEN Raise("ValueError", self)
    ELSE Ok(setattr(self, "_magazine", value.id))

(***************************************************************************)
(* Author and Magazine: property setters and constructors.                 *)
(***************************************************************************)
Author_name_set(self, value) ==
    IF ~isinstance(value, "str") THEN self
    ELSE IF len(value) = 0 THEN self
    ELSE IF hasattr(self, "_name") THEN self
    ELSE setattr(self, "_name", value.val)

Author_init(name) ==
    setattr(Author_name_set(EmptyObj, name), "_articles", <<>>)

Magazine_name_set(self, value) ==
    IF ~isinstance(value, "str") THEN self
    ELSE IF len(value) < 2 \/ len(value) > 16 THEN self
    ELSE setattr(self, "_name", value.val)

Magazine_category_set(self, value) ==
    IF ~isinstance(value, "str") THEN self
    ELSE IF len(value) = 0 THEN self
    ELSE setattr(self, "_category", value.val)

Magazine_init(name, category) ==
    setattr(Magazine_category_set(Magazine_name_set(EmptyObj, name), category),
            "_articles", <<>>)

(***************************************************************************)
(* The store: the three heaps and the registry, threaded through the body  *)
(* of Article.__init__ together with the exception it may raise.           *)
(***************************************************************************)
Store == [authors |-> authors, magazines |-> magazines,
          articles |-> articles, all |-> Article_all, exc |-> NoExc]

Author_articles(S, a) == S.authors[a]["_articles"]

Magazine_articles(S, m) == S.magazines[m]["_articles"]

\* faulty variant: appends to the author's list without the membership test
RegisterAuthor_Always(S, x, a) ==
    [S EXCEPT !.authors[a]["_articles"] = Append(@, x)]

\* lines 9-11: register in the author's list, if not already present
RegisterAuthor(S, x, a) ==
    IF ~In(x, Author_articles(S, a))
    THEN [S EXCEPT !.authors[a]["_articles"] = Append(@, x)]
    ELSE S

\* faulty variant: the magazine side is never updated
RegisterMagazine_Never(S, x, m) == S

\* lines 13-15: register in the magazine's list, if not already present
RegisterMagazine(S, x, m) ==
    IF ~In(x, Magazine_articles(S, m))
    THEN [S EXCEPT !.magazines[m]["_articles"] = Append(@, x)]
    ELSE S

\* faulty variant: appends to Article.all without the membership test
RegisterAll_Always(S, x) == [S EXCEPT !.all = Append(@, x)]

\* lines 17-19: register in Article.all, if not already present
RegisterAll(S, x) ==
    IF ~In(x, S.all) THEN [S EXCEPT !.all = Append(@, x)] ELSE S

\* faulty variant: registers with the author before the magazine is checked
Article_init_EarlyRegister(S, x, author, magazine, title) ==
    LET r1 == Article_author_set(S.articles[x], author) IN
    IF r1.exc # NoExc THEN [S EXCEPT !.exc = r1.exc]
    ELSE
    LET S1 == RegisterAuthor([S EXCEPT !.articles[x] = r1.obj], x, author.id)
        r2 == Article_magazine_set(r1.obj, magazine)
    IN
    IF r2.exc # NoExc THEN [S1 EXCEPT !.exc = r2.exc]
    ELSE
    LET o3 == Article_title_set(r2.obj, title)
        S3 == [S1 EXCEPT !.articles[x] = o3]
        S5 == RegisterMagazine(S3, x, magazine.id)
    IN  RegisterAll(S5, x)

\* Article.__init__ run on the object at index x of the article heap
Article_init(S, x, author, magazine, title) ==
    LET r1 == Article_author_set(S.articles[x], author) IN
    IF r1.exc # NoExc THEN [S EXCEPT !.exc = r1.exc]
    ELSE
    LET r2 == Article_magazine_set(r1.obj, magazine) IN
    IF r2.exc # NoExc
    THEN [S EXCEPT !.articles[x] = r1.obj, !.exc = r2.exc]
    ELSE
    LET o3 == Article_title_set(r2.obj, title)
        S3 == [S EXCEPT !.articles[x] = o3]
        S4 == RegisterAuthor(S3, x, author.id)
        S5 == RegisterMagazine(S4, x, magazine.id)
    IN  RegisterAll(S5, x)

\* the object x is referenced from a collection or from the registry
Reachable(S, x) ==
    \/ In(x, S.all)
    \/ \E a \in 1..Len(S.authors) : In(x, Author_articles(S, a))
    \/ \E m \in 1..Len(S.magazines) : In(x, Magazine_articles(S, m))

\* Article(author, magazine, title): allocate, run __init__; when __init__
\* raises, the caller gets no reference to the new object, which is
\* collected unless __init__ has stored it somewhere
Article_new(S, author, magazine, title) ==
    LET x  == Len(S.articles) + 1
        S0 == [S EXCEPT !.articles = Append(@, EmptyObj)]
        r  == Article_init(S0, x, author, magazine, title)
    IN  IF r.exc # NoExc /\ ~Reachable(r, x)
        THEN [r EXCEPT !.articles = S.articles]
        ELSE r

\* Author.add_article: self is the author a
Author_add_article(S, a, magazine, title) ==
    Article_new(S, Ref("Author", a), magazine, title)

(***************************************************************************)
(* Results of reads and queries: a value, the sentinel None, or the        *)
(* AttributeError a property getter raises when its attribute is unset.    *)
(***************************************************************************)
Value(v) == [kind |-> "value", val |-> v]

RNone == [kind |-> "None"]

AttributeError == [kind |-> "AttributeError"]

getattr(obj, f) == IF hasattr(obj, f) THEN Value(obj[f]) ELSE AttributeError

Article_title(x) == getattr(articles[x], "_title")

Article_author(x) == getattr(articles[x], "_author")

Article_magazine(x) == getattr(articles[x], "_magazine")

Author_name(a) == getattr(authors[a], "_name")

Magazine_name(m) == getattr(magazines[m], "_name")

Magazine_category(m) == getattr(magazines[m], "_category")

\* list(set(article.magazine for article in self._articles)), as a set
Author_magazines(a) ==
    LET list == authors[a]["_articles"] IN
    IF \E x \in Elems(list) : Article_magazine(x) = AttributeError
    THEN AttributeError
    ELSE Value({Article_magazine(x).val : x \in Elems(list)})

Author_topic_areas(a) ==
    IF authors[a]["_articles"] = <<>> THEN RNone
    ELSE LET ms == Author_magazines(a) IN
         IF ms = AttributeError THEN AttributeError
         ELSE IF \E m \in ms.val : Magazine_category(m) = AttributeError
         THEN AttributeError
         ELSE Value({Magazine_category(m).val : m \in ms.val})

\* list(set(article.author for article in self._articles)), as a set
Magazine_contributors(m) ==
    LET list == magazines[m]["_articles"] IN
    IF \E x \in Elems(list) : Article_author(x) = AttributeError
    THEN AttributeError
    ELSE Value({Article_author(x).val : x \in Elems(list)})

Magazine_article_titles(m) ==
    LET list == magazines[m]["_articles"] IN
    IF list = <<>> THEN RNone
    ELSE IF \E i \in 1..Len(list) : Article_title(list[i]) = AttributeError
    THEN AttributeError
    ELSE Value([i \in 1..Len(list) |-> Article_title(list[i]).val])

\* lines 240-243: the dictionary author_counts, as its keys in insertion
\* order and the count of each key
RECURSIVE author_counts(_, _)
author_counts(list, d) ==
    IF list = <<>> THEN d
    ELSE LET author == articles[Head(list)]["_author"]
             known  == author \in DOMAIN d.count
             n      == IF known THEN d.count[author] ELSE 0
         IN  author_counts(Tail(list),
                 [keys  |-> IF known THEN d.keys ELSE Append(d.keys, author),
                  count |-> (author :> n + 1) @@ d.count])

EmptyDict == [keys |-> <<>>, count |-> [a \in {} |-> 0]]

\* faulty variant: the threshold of line 244 off by one
MoreThanOne(d, author) == d.count[author] > 1

MoreThanTwo(d, author) == d.count[author] > 2

Magazine_contributing_authors(m) ==
    LET list == magazines[m]["_articles"] IN
    IF \E x \in Elems(list) : Article_author(x) = AttributeError
    THEN AttributeError
    ELSE LET d == author_counts(list, EmptyDict)
             r == SelectSeq(d.keys, LAMBDA author : MoreThanTwo(d, author))
         IN  IF r = <<>> THEN RNone ELSE Value(r)

(***************************************************************************)
(* Inputs.                                                                 *)
(***************************************************************************)
Long50 == "01234567890123456789012345678901234567890123456789"

Long51 == "012345678901234567890123456789012345678901234567890"

Titles == {Str("Bad!"), Str("Title"), Str(Long50), Str(Long51), None}

AuthorNames == {Str("Ann"), Str(""), None}

MagazineNames == {Str("Vogue"), Str("V")}

Categories == {Str("Tech"), Str("Fashion"), Str("")}

AuthorIds == 1..Len(authors)

MagazineIds == 1..Len(magazines)

ArticleIds == 1..Len(articles)

\* values a caller may pass where an Author or a Magazine is expected: any
\* existing object, of the right class or of the wrong one
Objects == {Ref("Author", a) : a \in AuthorIds}
             \cup {Ref("Magazine", m) : m \in MagazineIds}

(***************************************************************************)
(* Actions: one per call the client can make.  last records the call, the  *)
(* exception it raised, the Article a constructor returned or the title    *)
(* setter was applied to (0 otherwise), and its argument: the classes of   *)
(* the author and magazine given to a constructor, the value given to the  *)
(* title setter (None for the other calls).                                *)
ArgClasses(author, magazine) ==
    [author |-> author.cls, magazine |-> magazine.cls]

(***************************************************************************)
Commit(S, op, ret, arg) ==
    /\ authors' = S.authors
    /\ magazines' = S.magazines
    /\ articles' = S.articles
    /\ Article_all' = S.all
    /\ last' = [op |-> op, exc |-> S.exc, arg |-> arg,
                ret |-> IF S.exc = NoExc THEN ret ELSE 0]
    /\ ops' = ops + 1

Init ==
    /\ authors = <<>>
    /\ magazines = <<>>
    /\ articles = <<>>
    /\ Article_all = <<>>
    /\ last = [op |-> "start", exc |-> NoExc, arg |-> None, ret |-> 0]
    /\ ops = 0

NewAuthorCall(name) ==
    Commit([Store EXCEPT !.authors = Append(@, Author_init(name))],
           "Author", 0, None)

NewAuthor ==
    /\ ops < MaxOps
    /\ \E name \in AuthorNames :
         NewAuthorCall(name)

SetAuthorNameCall(a, name) ==
    Commit([Store EXCEPT !.authors[a] = Author_name_set(@, name)],
           "Author.name", 0, None)

SetAuthorName ==
    /\ ops < MaxOps
    /\ \E a \in AuthorIds, name \in AuthorNames :
         SetAuthorNameCall(a, name)

NewMagazineCall(name, category) ==
    Commit([Store EXCEPT !.magazines = Append(@, Magazine_init(name, category))],
           "Magazine", 0, None)

NewMagazine ==
    /\ ops < MaxOps
    /\ \E name \in MagazineNames, category \in Categories :
         NewMagazineCall(name, category)

SetMagazineNameCall(m, name) ==
    Commit([Store EXCEPT !.magazines[m] = Magazine_name_set(@, name)],
           "Magazine.name", 0, None)

SetMagazineName ==
    /\ ops < MaxOps
    /\ \E m \in MagazineIds, name \in MagazineNames :
         SetMagazineNameCall(m, name)

SetMagazineCategoryCall(m, category) ==
    Commit([Store EXCEPT !.magazines[m] = Magazine_category_set(@, category)],
           "Magazine.category", 0, None)

SetMagazineCategory ==
    /\ ops < MaxOps
    /\ \E m \in MagazineIds, category \in Categories :
         SetMagazineCategoryCall(m, category)

NewArticleCall(author, magazine, title) ==
    Commit(Article_new(Store, author, magazine, title),
           "Article", Len(articles) + 1, ArgClasses(author, magazine))

NewArticle ==
    /\ ops < MaxOps
    /\ \E author \in Objects, magazine \in Objects, title \in Titles :
         NewArticleCall(author, magazine, title)

AddArticleCall(a, magazine, title) ==
    Commit(Author_add_article(Store, a, magazine, title),
           "add_article", Len(articles) + 1,
           ArgClasses(Ref("Author", a), magazine))

AddArticle ==
    /\ ops < MaxOps
    /\ \E a \in AuthorIds, magazine \in Objects, title \in Titles :
         AddArticleCall(a, magazine, title)

\* x.__init__(author, magazine, title) on an already constructed Article
ReInitArticleCall(x, author, magazine, title) ==
    Commit(Article_init(Store, x, author, magazine, title),
           "Article.__init__", 0, None)

ReInitArticle ==
    /\ ops < MaxOps
    /\ \E x \in ArticleIds, author \in Objects, magazine \in Objects, title \in Titles :
         ReInitArticleCall(x, author, magazine, title)

SetTitleCall(x, title) ==
    Commit([Store EXCEPT !.articles[x] = Article_title_set(@, title)],
           "Article.title", x, title)

SetTitle ==
    /\ ops < MaxOps
    /\ \E x \in ArticleIds, title \in Titles :
         SetTitleCall(x, title)

SetAuthorCall(x, value) ==
    LET r == Article_author_set(articles[x], value)
    IN  Commit([Store EXCEPT !.articles[x] = r.obj, !.exc = r.exc],
               "Article.author", 0, None)

SetAuthor ==
    /\ ops < MaxOps
    /\ \E x \in ArticleIds, value \in Objects :
         SetAuthorCall(x, value)

SetMagazineCall(x, value) ==
    LET r == Article_magazine_set(articles[x], value)
    IN  Commit([Store EXCEPT !.articles[x] = r.obj, !.exc = r.exc],
               "Article.magazine", 0, None)

SetMagazine ==
    /\ ops < MaxOps
    /\ \E x \in ArticleIds, value \in Objects :
         SetMagazineCall(x, value)

Next ==
    \/ NewAuthor
    \/ SetAuthorName
    \/ NewMagazine
    \/ SetMagazineName
    \/ SetMagazineCategory
    \/ NewArticle
    \/ AddArticle
    \/ ReInitArticle
    \/ SetTitle
    \/ SetAuthor
    \/ SetMagazine

Spec == Init /\ [][Next]_vars

(***************************************************************************)
(* Properties.                                                             *)
(***************************************************************************)
\* the titles the specification calls valid: a string of 5 to 50 characters
ValidTitle(t) == t.cls = "str" /\ Len(t.val) >= 5 /\ Len(t.val) <= 50

IsPrefix(s, t) == Len(s) <= Len(t) /\ \A i \in 1..Len(s) : s[i] = t[i]

Heap == <<authors, magazines, articles, Article_all>>

\* C1: immediately after a.add_article(m, title) with a title of length
\* 5..50 returns the Article x, x is a new Article of a and m that occurs
\* exactly once in a.articles() and exactly once in m.articles(), whatever
\* calls came before.
C1_AddArticleRegistersOnce ==
    [][\A a \in AuthorIds, m \in MagazineIds, t \in Titles :
         (/\ ValidTitle(t)
          /\ last'.op = "add_article"
          /\ AddArticleCall(a, Ref("Magazine", m), t)) =>
            LET x == last'.ret IN
            /\ last'.exc = NoExc
            /\ x = Len(articles) + 1
            /\ x \in 1..Len(articles')
            /\ articles'[x]["_author"] = a
            /\ articles'[x]["_magazine"] = m
            /\ Count(x, authors'[a]["_articles"]) = 1
            /\ Count(x, magazines'[m]["_articles"]) = 1]_vars

\* add_article has just returned a second or later Article, with a title,
\* which is registered on both sides
C1_Witness ==
    /\ last.op = "add_article"
    /\ last.exc = NoExc
    /\ last.ret >= 2
    /\ hasattr(articles[last.ret], "_title")
    /\ Count(last.ret, authors[articles[last.ret]["_author"]]["_articles"]) = 1
    /\ Count(last.ret, magazines[articles[last.ret]["_magazine"]]["_articles"]) = 1

\* C2: Article.all holds every Article whose construction completed, exactly
\* once and in the order of completion, and nothing else; no call removes or
\* reorders its entries.
C2_RegistryState(all, heap) == all = [i \in 1..Len(heap) |-> i]

C2_Registry ==
    [][/\ C2_RegistryState(Article_all, articles)
       /\ C2_RegistryState(Article_all', articles')
       /\ IsPrefix(Article_all, Article_all')]_vars

\* two Articles are registered and __init__ has been run again on one
C2_Witness ==
    /\ Len(Article_all) >= 2
    /\ last.op = "Article.__init__"
    /\ last.exc = NoExc

\* C3: once the title of an Article holds a value, no call changes it.
C3_TitleSetOnce ==
    [][\A x \in ArticleIds :
         hasattr(articles[x], "_title") =>
            /\ x \in 1..Len(articles')
            /\ hasattr(articles'[x], "_title")
            /\ articles'[x]["_title"] = articles[x]["_title"]]_vars

\* the title setter was given a valid title other than the one the Article
\* holds
C3_Witness ==
    /\ last.op = "Article.title"
    /\ ValidTitle(last.arg)
    /\ hasattr(articles[last.ret], "_title")
    /\ articles[last.ret]["_title"] # last.arg.val

\* C4: constructing an Article with a title that is not a string of length
\* 5..50 raises an error and leaves the registry and every collection
\* unchanged; with a valid title (and a valid author and magazine) the
\* construction succeeds.
C4_InvalidTitleRejected ==
    [][\A a \in AuthorIds, m \in MagazineIds, t \in Titles :
         (/\ last'.op = "Article"
          /\ NewArticleCall(Ref("Author", a), Ref("Magazine", m), t)) =>
            IF ValidTitle(t)
            THEN last'.exc = NoExc /\ Len(Article_all') = Len(Article_all) + 1
            ELSE last'.exc # NoExc /\ UNCHANGED Heap]_vars

\* C5: constructing an Article with an author that is not an Author, or a
\* magazine that is not a Magazine, raises an error to the caller and leaves
\* Article.all, every Author's and every Magazine's collection unchanged.
C5_InvalidTypeRejected ==
    [][(/\ last'.op \in {"Article", "add_article"}
        /\ ~(last'.arg.author = "Author" /\ last'.arg.magazine = "Magazine"))
       => (last'.exc = "ValueError" /\ UNCHANGED Heap)]_vars

\* a construction has just failed in a store that holds registered Articles
C5_Witness ==
    /\ last.op \in {"Article", "add_article"}
    /\ last.exc = "ValueError"
    /\ Len(Article_all) >= 1
    /\ Len(magazines) >= 1

\* C6: every registered Article occurs exactly once in the collection of
\* its current author and of its current magazine, and in no other
\* author's or magazine's collection.
C6_Bidirectional ==
    \A x \in Elems(Article_all) :
        /\ \A a \in AuthorIds :
             Count(x, authors[a]["_articles"])
                = IF articles[x]["_author"] = a THEN 1 ELSE 0
        /\ \A m \in MagazineIds :
             Count(x, magazines[m]["_articles"])
                = IF articles[x]["_magazine"] = m THEN 1 ELSE 0

Total(r) == r # AttributeError

\* C7: every read and every query returns a value and never fails.
C7_Total ==
    /\ \A x \in ArticleIds :
         Total(Article_title(x)) /\ Total(Article_author(x))
            /\ Total(Article_magazine(x))
    /\ \A a \in AuthorIds :
         Total(Author_name(a)) /\ Total(Author_magazines(a))
            /\ Total(Author_topic_areas(a))
    /\ \A m \in MagazineIds :
         Total(Magazine_name(m)) /\ Total(Magazine_category(m))
            /\ Total(Magazine_contributors(m))
            /\ Total(Magazine_article_titles(m))
            /\ Total(Magazine_contributing_authors(m))

\* the Authors that are the author of more than 2 Articles of m.articles()
Frequent(m) ==
    {a \in AuthorIds :
        Cardinality({i \in 1..Len(magazines[m]["_articles"]) :
            articles[magazines[m]["_articles"][i]]["_author"] = a}) > 2}

C9_TopicAreas ==
    \A a \in AuthorIds :
        LET r    == Author_topic_areas(a)
            list == authors[a]["_articles"]
        IN  IF list = <<>> THEN r = RNone
            ELSE /\ r.kind = "value"
                 /\ r.val # {}
                 /\ \A c \in r.val :
                      \E x \in Elems(list) :
                         Magazine_category(articles[x]["_magazine"]) = Value(c)
                 /\ \A x \in Elems(list) :
                      LET c == Magazine_category(articles[x]["_magazine"])
                      IN  c.kind = "value" /\ c.val \in r.val

\* C10: running __init__ again on a constructed Article, with any author
\* and magazine, leaves no Article twice in Article.all, in an Author's
\* collection or in a Magazine's collection.
C10_NoDuplicates ==
    \A x \in ArticleIds :
        /\ Count(x, Article_all) <= 1
        /\ \A a \in AuthorIds : Count(x, authors[a]["_articles"]) <= 1
        /\ \A m \in MagazineIds : Count(x, magazines[m]["_articles"]) <= 1

\* __init__ has been run again, here with another author than the first:
\* the Article is in two Authors' collections, once in each
C10_Witness ==
    /\ last.op = "Article.__init__"
    /\ last.exc = NoExc
    /\ \E x \in ArticleIds, a, b \in AuthorIds :
         /\ a # b
         /\ Count(x, authors[a]["_articles"]) = 1
         /\ Count(x, authors[b]["_articles"]) = 1

====
